---------------------------- MODULE Spec2Model ----------------------------
(***************************************************************************)
(* Model of daemon.py: the asyncio Unix-socket server that reads one query *)
(* per client connection, retrieves examples, streams a backend's output   *)
(* through a worker thread and a queue, and writes candidate lines to the  *)
(* client.  One session (_serve task) is meant to be active at a time.     *)
(*                                                                         *)
(* Strings are sequences of one-character strings.  Python's None is the   *)
(* empty sequence: _clean_line never returns "" and emit() is never called *)
(* with "", so "None or empty" is one value wherever the code tests it.    *)
(***************************************************************************)
EXTENDS Naturals, Sequences, FiniteSets

(* ------------------------------ bounds -------------------------------- *)
\* connections accepted in one run of the session model
MaxConns == 3
\* longest partial line the buffer may hold after a read is processed
MaxBuf == 1
\* longest raw line given to the cleaning model
MaxLine == 4

(* ------------------------- program constants -------------------------- *)
\* ThreadPoolExecutor(max_workers=2)
PoolSize == 2
\* while count < 5
MaxCandidates == 5

None == <<>>
\* the characters of the model's alphabet, one token each
NL == "nl"
SP == " "
DOLLAR == "$"
BACKTICK == "bt"
HASH == "#"
DQUOTE == "dq"
SQUOTE == "sq"
DIGIT == "1"
Whitespace == {SP, NL}
\* the letters, in the order of their first use in a streamed response
LetterOrder == <<"a", "b", "c", "d", "e", "f">>
Alpha == {LetterOrder[i] : i \in 1..Len(LetterOrder)}

(* ------------------------------ strings ------------------------------- *)
RECURSIVE LStrip(_, _)
LStrip(s, cs) ==
    IF s # <<>> /\ Head(s) \in cs THEN LStrip(Tail(s), cs) ELSE s

RECURSIVE RStrip(_, _)
RStrip(s, cs) ==
    IF s # <<>> /\ s[Len(s)] \in cs
    THEN RStrip(SubSeq(s, 1, Len(s) - 1), cs)
    ELSE s

Strip(s, cs) == RStrip(LStrip(s, cs), cs)

CountChar(s, ch) == Cardinality({i \in 1..Len(s) : s[i] = ch})

StartsWith(s, p) == Len(s) >= Len(p) /\ SubSeq(s, 1, Len(p)) = p

\* "line.count('"') % 2 != 0 or line.count("'") % 2 != 0" is false
QuotesBalancedDoubleOnly(l) == CountChar(l, DQUOTE) % 2 = 0
QuotesBalanced(l) ==
    CountChar(l, DQUOTE) % 2 = 0 /\ CountChar(l, SQUOTE) % 2 = 0

\* _clean_line: the cleaned line, or None when the line is rejected
CleanLine(line) ==
    LET l == Strip(LStrip(Strip(line, Whitespace), {DOLLAR}), {SP, BACKTICK})
    IN  IF l = <<>> THEN None
        ELSE IF StartsWith(l, <<HASH>>)
                \/ StartsWith(l, <<BACKTICK, BACKTICK, BACKTICK>>)
             THEN None
        ELSE IF Len(l) <= 2 /\ l[1] \notin Alpha THEN None
        ELSE IF ~QuotesBalanced(l) THEN None
        ELSE l

(* --------------------------- line assembler --------------------------- *)
HasNL(s) == \E i \in 1..Len(s) : s[i] = NL

FirstNL(s) == CHOOSE i \in 1..Len(s) :
                 s[i] = NL /\ \A j \in 1..(i - 1) : s[j] # NL

\* "count < 5" of both loops and of the flush
CapNotReachedOffByOne(count) == count <= MaxCandidates
CapNotReached(count) == count < MaxCandidates

\* "cleaned and cleaned not in seen"
AcceptedIgnoringSeen(cleaned, seen) == cleaned # None
Accepted(cleaned, seen) == cleaned # None /\ cleaned \notin seen

\* while "\n" in buf and count < 5: split, clean, emit
\* st = [buf, seen, count, out]; out collects the emit() calls
RECURSIVE EmitLines(_)
EmitLines(st) ==
    IF HasNL(st.buf) /\ CapNotReached(st.count)
    THEN LET i       == FirstNL(st.buf)
             line    == SubSeq(st.buf, 1, i - 1)
             rest    == SubSeq(st.buf, i + 1, Len(st.buf))
             cleaned == CleanLine(line)
         IN  IF Accepted(cleaned, st.seen)
             THEN EmitLines([buf   |-> rest,
                             seen  |-> st.seen \cup {cleaned},
                             count |-> st.count + 1,
                             out   |-> Append(st.out, cleaned)])
             ELSE EmitLines([st EXCEPT !.buf = rest])
    ELSE st

\* the flush of the remaining partial line after the read loop
FlushLine(st, stopSet) ==
    IF Strip(st.buf, Whitespace) # <<>> /\ CapNotReached(st.count) /\ ~stopSet
    THEN LET cleaned == CleanLine(st.buf)
         IN  IF Accepted(cleaned, st.seen)
             THEN [st EXCEPT !.out = Append(st.out, cleaned)]
             ELSE st
    ELSE st

(* ------------------------------- state -------------------------------- *)
VARIABLES
    BACKEND,            \* ZAI_BACKEND, read once at startup
    ANTHROPIC_API_KEY,  \* "" when the environment does not set it
    currentTask,        \* _current_task: 0 for None, else the connection of the task
    hpc,                \* handle_client of each connection: where it is
    waitOn,             \* the earlier task a handle_client cancelled and awaits
    spc,                \* the _serve task of each connection: where it is
    cancelReq,          \* cancel() was called and CancelledError is not yet raised
    exc,                \* the exception passing through the task's finally blocks,
                        \* then the one the finished task holds: "none", "fault"
                        \* (an Exception) or "cancel" (CancelledError)
    written,            \* lines passed to writer.write, per connection
    eof,                \* writer.write_eof() was called
    closed,             \* writer.close() was called
    queue,              \* the session's asyncio.Queue
    stop,               \* the session's threading.Event
    fpc,                \* the session's _fts_query_sync job
    ppc,                \* the session's produce() job
    attempt,            \* the attempt of "for attempt in range(2)" that ran last
    buf,                \* the stream function's local buf
    seen,               \* the stream function's local seen
    count,              \* the stream function's local count
    pending,            \* work items submitted to _executor and not yet taken
    conn,               \* _http_conn and _anthropic_conn: "absent" or "open"
    put                 \* history: everything the producer put on the queue

vars == <<BACKEND, ANTHROPIC_API_KEY, currentTask, hpc, waitOn, spc, cancelReq,
          exc, written, eof, closed, queue, stop, fpc, ppc, attempt, buf, seen,
          count, pending, conn, put>>

Conns == 1..MaxConns

\* "if BACKEND == 'anthropic' and ANTHROPIC_API_KEY" selects the producer
VariantIgnoringKey == IF BACKEND = "anthropic" THEN "anthropic" ELSE "local"
Variant == IF BACKEND = "anthropic" /\ ANTHROPIC_API_KEY # ""
           THEN "anthropic" ELSE "local"

\* the states in which a produce() job occupies a worker thread
ProducerRunning == {"connect", "loop", "reading", "finally"}

\* worker threads of _executor that are busy
Busy == Cardinality({c \in Conns : fpc[c] = "running"})
        + Cardinality({c \in Conns : ppc[c] \in ProducerRunning})

\* the run_in_executor future of produce() is done
ProducerReturned(c) == ppc[c] = "done"

InitWith(backends, keys) ==
    /\ BACKEND \in backends
    /\ ANTHROPIC_API_KEY \in keys
    /\ currentTask = 0
    /\ hpc = [c \in Conns |-> "idle"]
    /\ waitOn = [c \in Conns |-> 0]
    /\ spc = [c \in Conns |-> "none"]
    /\ cancelReq = [c \in Conns |-> FALSE]
    /\ exc = [c \in Conns |-> "none"]
    /\ written = [c \in Conns |-> <<>>]
    /\ eof = [c \in Conns |-> FALSE]
    /\ closed = [c \in Conns |-> FALSE]
    /\ queue = [c \in Conns |-> <<>>]
    /\ stop = [c \in Conns |-> FALSE]
    /\ fpc = [c \in Conns |-> "none"]
    /\ ppc = [c \in Conns |-> "none"]
    /\ attempt = [c \in Conns |-> 0]
    /\ buf = [c \in Conns |-> <<>>]
    /\ seen = [c \in Conns |-> {}]
    /\ count = [c \in Conns |-> 0]
    /\ pending = <<>>
    /\ conn = [v \in {"local", "anthropic"} |-> "absent"]
    /\ put = [c \in Conns |-> <<>>]

configVars == <<BACKEND, ANTHROPIC_API_KEY>>
handlerVars == <<currentTask, hpc, waitOn>>
writerVars == <<written, eof, closed>>
streamVars == <<attempt, buf, seen, count, conn>>

(* --------------------------- handle_client ---------------------------- *)
\* task = asyncio.create_task(_serve(reader, writer)); _current_task = task
CreateTask(c) ==
    /\ spc' = [spc EXCEPT ![c] = "start"]
    /\ currentTask' = c
    /\ hpc' = [hpc EXCEPT ![c] = "awaitOwn"]

\* "await _current_task" returns: the awaited task is done
OldTaskFinished(c) == spc[waitOn[c]] = "done"

\* handle_client that starts its session beside the one in flight, which it
\* neither cancels nor awaits
AcceptWithoutPreempting(c) ==
    /\ hpc[c] = "idle"
    /\ \A d \in Conns : d < c => hpc[d] # "idle"
    /\ waitOn' = [waitOn EXCEPT
                    ![c] = IF currentTask # 0 /\ spc[currentTask] # "done"
                           THEN currentTask ELSE 0]
    /\ CreateTask(c)
    /\ UNCHANGED <<configVars, exc, cancelReq, writerVars, queue, stop, fpc, ppc,
                   streamVars, pending, put>>

\* a connection is accepted and handle_client runs to its first await
Accept(c) ==
    /\ hpc[c] = "idle"
    /\ \A d \in Conns : d < c => hpc[d] # "idle"
    /\ IF currentTask # 0 /\ spc[currentTask] # "done"
       THEN /\ cancelReq' = [cancelReq EXCEPT ![currentTask] = TRUE]
            /\ hpc' = [hpc EXCEPT ![c] = "awaitOld"]
            /\ waitOn' = [waitOn EXCEPT ![c] = currentTask]
            /\ UNCHANGED <<spc, currentTask>>
       ELSE /\ CreateTask(c)
            /\ UNCHANGED <<cancelReq, waitOn>>
    /\ UNCHANGED <<configVars, exc, writerVars, queue, stop, fpc, ppc, streamVars,
                   pending, put>>

\* "except asyncio.CancelledError: pass" around both awaits of handle_client
HandlerCatches(e) == e = "cancel"

\* the await of a finished task returns, or raises what the task holds
AwaitPasses(t) == exc[t] = "none" \/ HandlerCatches(exc[t])

\* handle_client resumes after "await _current_task": it starts its session,
\* or the await raises past the except clause and handle_client ends there
HandleResume(c) ==
    /\ hpc[c] = "awaitOld"
    /\ OldTaskFinished(c)
    /\ IF AwaitPasses(waitOn[c])
       THEN CreateTask(c)
       ELSE /\ hpc' = [hpc EXCEPT ![c] = "raised"]
            /\ UNCHANGED <<spc, currentTask>>
    /\ UNCHANGED <<configVars, exc, waitOn, cancelReq, writerVars, queue, stop, fpc,
                   ppc, streamVars, pending, put>>

\* handle_client has returned: its "await task" ends when its own task is
\* done, CancelledError is swallowed and nothing follows the await
HandlerReturned(c) ==
    hpc[c] = "awaitOwn" /\ spc[c] = "done" /\ AwaitPasses(c)

\* handle_client has ended with an exception
HandlerRaised(c) ==
    \/ hpc[c] = "raised"
    \/ hpc[c] = "awaitOwn" /\ spc[c] = "done" /\ ~AwaitPasses(c)

(* ------------------------------- _serve ------------------------------- *)
\* "except asyncio.CancelledError: raise / except Exception as e: log.error":
\* what is left of exception e after the outer handlers
CaughtNothing(e) == e
Caught(e) == IF e = "fault" THEN "none" ELSE e

\* the outer handlers and "finally: writer.close()", after which the task is
\* done; e is the exception that reached them
CloseAndFinish(c, e) ==
    /\ closed' = [closed EXCEPT ![c] = TRUE]
    /\ spc' = [spc EXCEPT ![c] = "done"]
    /\ exc' = [exc EXCEPT ![c] = Caught(e)]

\* an inner "finally" that leaves the stop event alone
TeardownWithoutStop(c, e) ==
    /\ UNCHANGED stop
    /\ eof' = [eof EXCEPT ![c] = TRUE]
    /\ IF ProducerReturned(c)
       THEN CloseAndFinish(c, e)
       ELSE /\ spc' = [spc EXCEPT ![c] = "teardown"]
            /\ exc' = [exc EXCEPT ![c] = e]
            /\ UNCHANGED closed

\* the inner "finally": stop.set(); writer.write_eof(); await asyncio.shield(future).
\* The await returns at once when the future is done; the task then goes on to
\* the outer handlers.  e is the exception that left the loop, "none" after
\* a break.
Teardown(c, e) ==
    /\ stop' = [stop EXCEPT ![c] = TRUE]
    /\ eof' = [eof EXCEPT ![c] = TRUE]
    /\ IF ProducerReturned(c)
       THEN CloseAndFinish(c, e)
       ELSE /\ spc' = [spc EXCEPT ![c] = "teardown"]
            /\ exc' = [exc EXCEPT ![c] = e]
            /\ UNCHANGED closed

\* the first step of the task: up to "await asyncio.wait_for(reader.readline())"
ServeStart(c) ==
    /\ spc[c] = "start"
    /\ ~cancelReq[c]
    /\ spc' = [spc EXCEPT ![c] = "readline"]
    /\ UNCHANGED <<configVars, exc, handlerVars, cancelReq, writerVars, queue, stop,
                   fpc, ppc, streamVars, pending, put>>

\* _serve that submits the retrieval before it looks at the line it read
ServeReadLineRetrievingFirst(c, r) ==
    /\ spc[c] = "readline"
    /\ ~cancelReq[c]
    /\ fpc' = [fpc EXCEPT ![c] = "queued"]
    /\ pending' = Append(pending, <<"fts", c>>)
    /\ IF r = "query"
       THEN /\ spc' = [spc EXCEPT ![c] = "fts"]
            /\ UNCHANGED <<closed, exc>>
       ELSE CloseAndFinish(c, "none")
    /\ UNCHANGED <<configVars, handlerVars, cancelReq, written, eof, queue,
                   stop, ppc, streamVars, put>>

\* the read of the query line returns: a query, an empty line, or the timeout
ServeReadLine(c, r) ==
    /\ spc[c] = "readline"
    /\ ~cancelReq[c]
    /\ IF r = "query"
       THEN /\ spc' = [spc EXCEPT ![c] = "fts"]
            /\ fpc' = [fpc EXCEPT ![c] = "queued"]
            /\ pending' = Append(pending, <<"fts", c>>)
            /\ UNCHANGED <<closed, exc>>
       ELSE /\ CloseAndFinish(c, "none")
            /\ UNCHANGED <<fpc, pending>>
    /\ UNCHANGED <<configVars, handlerVars, cancelReq, written, eof, queue,
                   stop, ppc, streamVars, put>>

\* "examples = await fts_query(query)" returns or raises; on a result the
\* queue and the stop event are made and produce() is submitted
ServeRetrieved(c) ==
    /\ spc[c] = "fts"
    /\ ~cancelReq[c]
    /\ fpc[c] \in {"done", "failed"}
    /\ IF fpc[c] = "done"
       THEN /\ spc' = [spc EXCEPT ![c] = "drain"]
            /\ ppc' = [ppc EXCEPT ![c] = "queued"]
            /\ pending' = Append(pending, <<"produce", c>>)
            /\ UNCHANGED <<closed, exc>>
       ELSE /\ CloseAndFinish(c, "fault")
            /\ UNCHANGED <<ppc, pending>>
    /\ UNCHANGED <<configVars, handlerVars, cancelReq, written, eof, queue,
                   stop, fpc, streamVars, put>>

\* queue.get(): the item the consumer takes
QueueGetLast(q) == q[Len(q)]
QueueGet(q) == Head(q)

\* the queue after the item is taken
QueueRestSkipping(q) ==
    IF Len(q) > 1 /\ q[2] # None THEN Tail(Tail(q)) ELSE Tail(q)
QueueRest(q) == Tail(q)

\* "item = await queue.get()" returns an item; a candidate is written and
\* drained: at once (w = "ok"), after a wait (w = "wait"), or the drain raises
ServeItem(c, w) ==
    /\ spc[c] = "drain"
    /\ ~cancelReq[c]
    /\ queue[c] # <<>>
    /\ queue' = [queue EXCEPT ![c] = QueueRest(queue[c])]
    /\ LET item == QueueGet(queue[c])
       IN  IF item = None
           THEN /\ Teardown(c, "none")
                /\ UNCHANGED written
           ELSE /\ written' = [written EXCEPT ![c] = Append(written[c], item)]
                /\ IF w = "fault"
                   THEN Teardown(c, "fault")
                   ELSE /\ spc' = [spc EXCEPT
                                     ![c] = IF w = "wait" THEN "draining"
                                                          ELSE "drain"]
                        /\ UNCHANGED <<stop, eof, closed, exc>>
    /\ UNCHANGED <<configVars, handlerVars, cancelReq, fpc, ppc, streamVars,
                   pending, put>>

\* "await writer.drain()" returns or raises after a wait
ServeDrained(c, w) ==
    /\ spc[c] = "draining"
    /\ ~cancelReq[c]
    /\ IF w = "fault"
       THEN Teardown(c, "fault")
       ELSE /\ spc' = [spc EXCEPT ![c] = "drain"]
            /\ UNCHANGED <<stop, eof, closed, exc>>
    /\ UNCHANGED <<configVars, handlerVars, cancelReq, written, queue, fpc,
                   ppc, streamVars, pending, put>>

\* no item within LLM_TIMEOUT: asyncio.TimeoutError, break.  A free worker
\* takes a submitted job long before LLM_TIMEOUT (30 s) has passed, so the
\* wait times out on a job still queued only when the pool is busy.
ServeTimeout(c) ==
    /\ spc[c] = "drain"
    /\ ~cancelReq[c]
    /\ queue[c] = <<>>
    /\ ppc[c] = "queued" => Busy = PoolSize
    /\ Teardown(c, "none")
    /\ UNCHANGED <<configVars, handlerVars, cancelReq, written, queue, fpc,
                   ppc, streamVars, pending, put>>

\* "await asyncio.shield(future)" returns: the producer has returned
ServeTeardownDone(c) ==
    /\ spc[c] = "teardown"
    /\ ~cancelReq[c]
    /\ ProducerReturned(c)
    /\ CloseAndFinish(c, exc[c])
    /\ UNCHANGED <<configVars, handlerVars, cancelReq, written, eof, queue,
                   stop, fpc, ppc, streamVars, pending, put>>

\* the work items of _executor without the retrieval job of c
RECURSIVE WithoutFts(_, _)
WithoutFts(q, c) ==
    IF q = <<>> THEN <<>>
    ELSE IF Head(q) = <<"fts", c>> THEN WithoutFts(Tail(q), c)
    ELSE <<Head(q)>> \o WithoutFts(Tail(q), c)

\* CancelledError is raised in the task at the await where it is suspended and
\* takes the place of any exception on its way through the finally blocks.
\* Before the first step: the coroutine body never runs.  At the readline or
\* the retrieval: the outer finally runs; a retrieval job not yet taken by a
\* worker is cancelled with its future.  In the streaming loop: the inner
\* finally runs.  At the shield: the await is abandoned, the outer finally runs.
ServeCancelled(c) ==
    /\ cancelReq[c]
    /\ spc[c] \in {"start", "readline", "fts", "drain", "draining", "teardown"}
    /\ cancelReq' = [cancelReq EXCEPT ![c] = FALSE]
    /\ IF spc[c] = "start"
       THEN /\ spc' = [spc EXCEPT ![c] = "done"]
            /\ exc' = [exc EXCEPT ![c] = "cancel"]
            /\ UNCHANGED <<writerVars, stop, fpc, pending>>
       ELSE IF spc[c] \in {"drain", "draining"}
       THEN /\ Teardown(c, "cancel")
            /\ UNCHANGED <<written, fpc, pending>>
       ELSE /\ CloseAndFinish(c, "cancel")
            /\ IF spc[c] = "fts" /\ fpc[c] = "queued"
               THEN /\ fpc' = [fpc EXCEPT ![c] = "cancelled"]
                    /\ pending' = WithoutFts(pending, c)
               ELSE UNCHANGED <<fpc, pending>>
            /\ UNCHANGED <<written, eof, stop>>
    /\ UNCHANGED <<configVars, handlerVars, queue, ppc, streamVars, put>>

(* ------------------------ the worker pool ----------------------------- *)
\* a free worker thread of _executor takes the oldest work item
WorkerStart ==
    /\ pending # <<>>
    /\ Busy < PoolSize
    /\ pending' = Tail(pending)
    /\ LET job == Head(pending)
       IN  IF job[1] = "fts"
           THEN /\ fpc' = [fpc EXCEPT ![job[2]] = "running"]
                /\ UNCHANGED ppc
           ELSE /\ ppc' = [ppc EXCEPT ![job[2]] = "connect"]
                /\ UNCHANGED fpc
    /\ UNCHANGED <<configVars, exc, handlerVars, spc, cancelReq, writerVars, queue,
                   stop, streamVars, put>>

\* _fts_query_sync returns a list, or _get_db raises FileNotFoundError
FtsReturn(c, r) ==
    /\ fpc[c] = "running"
    /\ fpc' = [fpc EXCEPT ![c] = IF r = "ok" THEN "done" ELSE "failed"]
    /\ UNCHANGED <<configVars, exc, handlerVars, spc, cancelReq, writerVars, queue,
                   stop, ppc, streamVars, pending, put>>

(* ------------------- _llm_stream, _llm_stream_anthropic ---------------- *)
\* one line read from the response, as the wire carries it:
\*   eof       readline() returned b""
\*   err       readline() raised
\*   notdata   a line that does not start with "data: "
\*   done      data: [DONE]
\*   badjson   data: followed by text json.loads rejects
\*   nonobj    data: followed by JSON that is no object (data.get raises)
\*   content   data: {"content": text, "stop": stop}
\*   text_delta, message_stop, other   data: {"type": ...} events
PlainKinds == {"eof", "err", "notdata", "done", "badjson", "nonobj",
               "message_stop", "other"}

EventsOver(kinds, texts) ==
    {[k |-> kk, text |-> <<>>, stop |-> FALSE] : kk \in kinds}
    \cup {[k |-> "content", text |-> t, stop |-> b] :
             t \in texts \cup {<<>>}, b \in BOOLEAN}
    \cup {[k |-> "text_delta", text |-> t, stop |-> FALSE] : t \in texts}

\* the body of the read loop of _llm_stream for one line; next is what the
\* loop does after it
LocalEvent(st, ev) ==
    IF ev.k = "eof" THEN [st |-> st, next |-> "break"]
    ELSE IF ev.k = "err" THEN [st |-> st, next |-> "raise"]
    ELSE IF ev.k \in {"notdata", "badjson", "done"}
         THEN [st |-> st, next |-> "loop"]
    ELSE IF ev.k = "nonobj" THEN [st |-> st, next |-> "raise"]
    ELSE LET text == IF ev.k = "content" THEN ev.text ELSE <<>>
             stopTok == ev.k = "content" /\ ev.stop
         IN  [st   |-> EmitLines([st EXCEPT !.buf = st.buf \o text]),
              next |-> IF stopTok THEN "break" ELSE "loop"]

\* the body of the read loop of _llm_stream_anthropic for one line
AnthropicEvent(st, ev) ==
    IF ev.k \in {"eof", "done", "message_stop"}
    THEN [st |-> st, next |-> "break"]
    ELSE IF ev.k \in {"err", "nonobj"} THEN [st |-> st, next |-> "raise"]
    ELSE IF ev.k \in {"notdata", "badjson"} THEN [st |-> st, next |-> "loop"]
    ELSE LET text == IF ev.k = "text_delta" THEN ev.text ELSE <<>>
         IN  [st   |-> EmitLines([st EXCEPT !.buf = st.buf \o text]),
              next |-> "loop"]

StreamEvent(st, ev) ==
    IF Variant = "anthropic" THEN AnthropicEvent(st, ev) ELSE LocalEvent(st, ev)

\* the stream function's locals of connection c
Locals(c) == [buf |-> buf[c], seen |-> seen[c], count |-> count[c],
              out |-> <<>>]

\* the locals are stored and every emit() call reaches the queue
StoreLocals(c, st) ==
    /\ buf' = [buf EXCEPT ![c] = st.buf]
    /\ seen' = [seen EXCEPT ![c] = st.seen]
    /\ count' = [count EXCEPT ![c] = st.count]
    /\ queue' = [queue EXCEPT ![c] = queue[c] \o st.out]
    /\ put' = [put EXCEPT ![c] = put[c] \o st.out]

\* "if attempt == 1: return": the attempt that failed was the last one
LastAttemptOffByOne(a) == a = 2
LastAttempt(a) == a = 1

\* one attempt of "for attempt in range(2)": the connection is taken from
\* _get_http / _get_anthropic_conn, the request is sent, the response read.
\* After "break" the loop variable is not read again.
Connect(c, r) ==
    /\ ppc[c] = "connect"
    /\ IF r = "fail"
       THEN /\ conn' = [conn EXCEPT ![Variant] = "absent"]
            /\ IF LastAttempt(attempt[c])
               THEN /\ ppc' = [ppc EXCEPT ![c] = "finally"]
                    /\ UNCHANGED attempt
               ELSE /\ attempt' = [attempt EXCEPT ![c] = attempt[c] + 1]
                    /\ UNCHANGED ppc
       ELSE IF r = "non200" /\ Variant = "anthropic"
       THEN /\ conn' = [conn EXCEPT ![Variant] = "absent"]
            /\ ppc' = [ppc EXCEPT ![c] = "finally"]
            /\ UNCHANGED attempt
       ELSE /\ conn' = [conn EXCEPT ![Variant] = "open"]
            /\ ppc' = [ppc EXCEPT ![c] = "loop"]
            /\ attempt' = [attempt EXCEPT ![c] = 0]
    /\ UNCHANGED <<configVars, exc, handlerVars, spc, cancelReq, writerVars, queue,
                   stop, fpc, buf, seen, count, pending, put>>

\* "while count < 5 and not stop.is_set()": enter the blocking readline, or
\* leave the loop for the flush and return
ProducerLoop(c) ==
    /\ ppc[c] = "loop"
    /\ IF CapNotReached(count[c]) /\ ~stop[c]
       THEN /\ ppc' = [ppc EXCEPT ![c] = "reading"]
            /\ UNCHANGED <<buf, seen, count, queue, put>>
       ELSE /\ ppc' = [ppc EXCEPT ![c] = "finally"]
            /\ StoreLocals(c, FlushLine(Locals(c), stop[c]))
    /\ UNCHANGED <<configVars, exc, handlerVars, spc, cancelReq, writerVars, stop,
                   fpc, attempt, conn, pending>>

\* the letters of a string
LettersOf(s) == {s[i] : i \in 1..Len(s)} \cap Alpha

\* The reads a run may take.  The partial line kept after a read is at most
\* MaxBuf long.  _clean_line treats all letters alike, so a response is
\* taken up to a renaming of its letters: a letter appears for the first
\* time only after the letters before it in LetterOrder.
ReadInBounds(c, st) ==
    /\ Len(st.buf) <= MaxBuf
    /\ LET used == LettersOf(st.buf) \cup UNION {LettersOf(x) : x \in st.seen}
       IN  used = {LetterOrder[i] : i \in 1..Cardinality(used)}

\* resp.readline() returns ev (or raises) and the loop body runs; on break the
\* flush runs and the function returns; on an exception the connection is reset
ProducerRead(c, ev) ==
    /\ ppc[c] = "reading"
    /\ LET r == StreamEvent(Locals(c), ev)
       IN  /\ ReadInBounds(c, r.st)
           /\ IF r.next = "loop"
              THEN /\ ppc' = [ppc EXCEPT ![c] = "loop"]
                   /\ StoreLocals(c, r.st)
                   /\ UNCHANGED conn
              ELSE IF r.next = "break"
              THEN /\ ppc' = [ppc EXCEPT ![c] = "finally"]
                   /\ StoreLocals(c, FlushLine(r.st, stop[c]))
                   /\ UNCHANGED conn
              ELSE /\ ppc' = [ppc EXCEPT ![c] = "finally"]
                   /\ StoreLocals(c, r.st)
                   /\ conn' = [conn EXCEPT ![Variant] = "absent"]
    /\ UNCHANGED <<configVars, exc, handlerVars, spc, cancelReq, writerVars, stop,
                   fpc, attempt, pending>>

\* produce(): "finally: loop.call_soon_threadsafe(queue.put_nowait, None)",
\* after which produce() returns, the stream function's locals are gone and
\* the worker thread is free.  attempt stays as the connect loop left it:
\* 1 when both attempts failed, 0 otherwise.
ProduceFinallyUnlessStopped(c) ==
    /\ ppc[c] = "finally"
    /\ ppc' = [ppc EXCEPT ![c] = "done"]
    /\ queue' = [queue EXCEPT
                   ![c] = IF stop[c] THEN queue[c] ELSE Append(queue[c], None)]
    /\ put' = [put EXCEPT
                 ![c] = IF stop[c] THEN put[c] ELSE Append(put[c], None)]
    /\ buf' = [buf EXCEPT ![c] = <<>>]
    /\ seen' = [seen EXCEPT ![c] = {}]
    /\ count' = [count EXCEPT ![c] = 0]
    /\ UNCHANGED <<configVars, exc, handlerVars, spc, cancelReq, writerVars, stop,
                   fpc, attempt, conn, pending>>

ProduceFinally(c) ==
    /\ ppc[c] = "finally"
    /\ ppc' = [ppc EXCEPT ![c] = "done"]
    /\ queue' = [queue EXCEPT ![c] = Append(queue[c], None)]
    /\ put' = [put EXCEPT ![c] = Append(put[c], None)]
    /\ buf' = [buf EXCEPT ![c] = <<>>]
    /\ seen' = [seen EXCEPT ![c] = {}]
    /\ count' = [count EXCEPT ![c] = 0]
    /\ UNCHANGED <<configVars, exc, handlerVars, spc, cancelReq, writerVars, stop,
                   fpc, attempt, conn, pending>>

(* --------------------------- specifications --------------------------- *)
\* streamed lines of the session model: a text delta that carries two whole
\* lines, end of input, a read error and a line that is skipped
SessionTexts == {<<"a", NL, "b", NL>>}
SessionKinds == {"eof", "err", "notdata"}

ReadResults == {"query", "empty", "timeout"}
DrainResults == {"ok", "wait", "fault"}
ConnectResults == {"ok", "fail", "non200"}
FtsResults == {"ok", "nodb"}

\* the session model runs the default configuration
Init == InitWith({"local"}, {""})

Next ==
    \/ \E c \in Conns : Accept(c)
    \/ \E c \in Conns : HandleResume(c)
    \/ \E c \in Conns : ServeStart(c)
    \/ \E c \in Conns, r \in ReadResults : ServeReadLine(c, r)
    \/ \E c \in Conns : ServeRetrieved(c)
    \/ \E c \in Conns, w \in DrainResults : ServeItem(c, w)
    \/ \E c \in Conns, w \in DrainResults : ServeDrained(c, w)
    \/ \E c \in Conns : ServeTimeout(c)
    \/ \E c \in Conns : ServeTeardownDone(c)
    \/ \E c \in Conns : ServeCancelled(c)
    \/ WorkerStart
    \/ \E c \in Conns, r \in FtsResults : FtsReturn(c, r)
    \/ \E c \in Conns, r \in ConnectResults : Connect(c, r)
    \/ \E c \in Conns : ProducerLoop(c)
    \/ \E c \in Conns, ev \in EventsOver(SessionKinds, SessionTexts) : ProducerRead(c, ev)
    \/ \E c \in Conns : ProduceFinally(c)

Spec == Init /\ [][Next]_vars

\* the session model started with the remote backend selected and no API key
InitNoKey == InitWith({"anthropic"}, {""})

SpecNoKey == InitNoKey /\ [][Next]_vars

\* the line assembler under one session: every kind of streamed line, with
\* text deltas of one letter, blank or newline, one carrying two lines and
\* one carrying a padded line
StreamTexts == {<<x>> : x \in Alpha \cup {SP, NL}}
               \cup {<<"a", NL, "b", NL>>, <<SP, "a", SP, NL>>}

InitStream == InitWith({"local", "anthropic"}, {"key"})

NextStream ==
    \/ Accept(1)
    \/ ServeStart(1)
    \/ \E r \in ReadResults : ServeReadLine(1, r)
    \/ ServeRetrieved(1)
    \/ \E w \in DrainResults : ServeItem(1, w)
    \/ \E w \in DrainResults : ServeDrained(1, w)
    \/ ServeTimeout(1)
    \/ ServeTeardownDone(1)
    \/ WorkerStart
    \/ \E r \in FtsResults : FtsReturn(1, r)
    \/ \E r \in ConnectResults : Connect(1, r)
    \/ ProducerLoop(1)
    \/ \E ev \in EventsOver(PlainKinds, StreamTexts) : ProducerRead(1, ev)
    \/ ProduceFinally(1)

SpecStream == InitStream /\ [][NextStream]_vars

\* the cleaning model: the producer of one session is in its read loop with
\* a raw line in its buffer, every text of up to MaxLine characters; the
\* line is ended by a newline or by the end of the stream and the candidate,
\* if any, goes to the client
CleanAlphabet == {"a", SP, DOLLAR, BACKTICK, HASH, DQUOTE, SQUOTE, DIGIT}

RECURSIVE TextsUpTo(_)
TextsUpTo(n) ==
    IF n = 0 THEN {<<>>}
    ELSE LET shorter == TextsUpTo(n - 1)
         IN  shorter \cup {Append(t, x) : t \in shorter, x \in CleanAlphabet}

RawLines == TextsUpTo(MaxLine)

CleanEvents ==
    {[k |-> "eof", text |-> <<>>, stop |-> FALSE]}
    \cup {[k |-> "content", text |-> <<NL>>, stop |-> b] : b \in BOOLEAN}

InitClean ==
    /\ BACKEND = "local"
    /\ ANTHROPIC_API_KEY = ""
    /\ currentTask = 1
    /\ hpc = [c \in Conns |-> IF c = 1 THEN "awaitOwn" ELSE "idle"]
    /\ waitOn = [c \in Conns |-> 0]
    /\ spc = [c \in Conns |-> IF c = 1 THEN "drain" ELSE "none"]
    /\ cancelReq = [c \in Conns |-> FALSE]
    /\ exc = [c \in Conns |-> "none"]
    /\ written = [c \in Conns |-> <<>>]
    /\ eof = [c \in Conns |-> FALSE]
    /\ closed = [c \in Conns |-> FALSE]
    /\ queue = [c \in Conns |-> <<>>]
    /\ stop = [c \in Conns |-> FALSE]
    /\ fpc = [c \in Conns |-> IF c = 1 THEN "done" ELSE "none"]
    /\ ppc = [c \in Conns |-> IF c = 1 THEN "reading" ELSE "none"]
    /\ attempt = [c \in Conns |-> 0]
    /\ \E line \in RawLines : buf = [c \in Conns |-> IF c = 1 THEN line ELSE <<>>]
    /\ seen = [c \in Conns |-> {}]
    /\ count = [c \in Conns |-> 0]
    /\ pending = <<>>
    /\ conn = [v \in {"local", "anthropic"} |-> IF v = "local" THEN "open" ELSE "absent"]
    /\ put = [c \in Conns |-> <<>>]

NextClean ==
    \/ \E ev \in CleanEvents : ProducerRead(1, ev)
    \/ ProducerLoop(1)
    \/ ProduceFinally(1)
    \/ ServeItem(1, "ok")

SpecClean == InitClean /\ [][NextClean]_vars

(* ------------------------------ claims -------------------------------- *)
\* the candidates among the items put on a queue, in order
Candidates(s) == SelectSeq(s, LAMBDA x : x # None)

\* the sentinels among the items put on a queue
Sentinels(s) == SelectSeq(s, LAMBDA x : x = None)

IsPrefix(p, s) == Len(p) <= Len(s) /\ SubSeq(s, 1, Len(p)) = p

\* a _serve task that has been created and has not finished
Active(c) == spc[c] \notin {"none", "done"}

\* the producer of c has sent a backend request
HasRequested(c) ==
    \/ ppc[c] \in {"loop", "reading", "finally", "done"}
    \/ ppc[c] = "connect" /\ attempt[c] = 1

\* the producer of c holds the response of the persistent connection: it is
\* between _get_http() / _get_anthropic_conn() and the end of its stream function
UsingConn(c) == ppc[c] \in {"loop", "reading"}

\* C1: at every instant at most one session (a _serve task created and not
\* yet finished) is active, whatever the timing of the connections.
C1_AtMostOneActive ==
    Cardinality({c \in Conns : Active(c)}) <= 1

\* C2: when session b preempts session a, the producer of a has returned
\* before the producer of b issues its backend request.
C2_OldProducerStoppedFirst ==
    \A a, b \in Conns :
        (waitOn[b] = a /\ HasRequested(b)) => ppc[a] \in {"none", "done"}

\* C3: a backend's persistent connection is never in use by the producers of
\* two sessions at the same time.
C3_ConnNeverShared ==
    Cardinality({c \in Conns : UsingConn(c)}) <= 1

\* C4: a session that started a producer does not finish its task, nor close
\* its client connection, before that producer has returned.
C4_TaskWaitsForProducer ==
    \A c \in Conns :
        (ppc[c] # "none" /\ (spc[c] = "done" \/ closed[c]))
            => ProducerReturned(c)

\* C5: when session b is started by a connection that preempted session a,
\* no candidate is written to the connection of a once the task of b exists.
C5_NoWriteAfterPreemption ==
    [][\A a, b \in Conns :
          (waitOn[b] = a /\ spc[b] # "none") => written'[a] = written[a]]_vars

\* a preempted session that had written a line and whose producer emitted a
\* candidate it never wrote, with the preempting session started
C5_Witness ==
    \E a, b \in Conns :
        /\ waitOn[b] = a
        /\ spc[b] # "none"
        /\ written[a] # <<>>
        /\ Len(Candidates(put[a])) > Len(written[a])

\* C6: every session, whatever its outcome, calls write_eof before it calls
\* writer.close.
C6_EofBeforeClose ==
    \A c \in Conns : closed[c] => eof[c]

\* C7: every started producer puts exactly one sentinel on its queue, after
\* every candidate, on every path through the stream function; until it has
\* returned it has put none.
C7_OneSentinelLast ==
    \A c \in Conns :
        IF ppc[c] = "done"
        THEN /\ Len(Sentinels(put[c])) = 1
             /\ put[c][Len(put[c])] = None
        ELSE Len(Sentinels(put[c])) = 0

\* a producer that returned after emitting a candidate, whose consumer had
\* already left the loop: the sentinel is still on the queue
C7_Witness ==
    \E c \in Conns :
        /\ ppc[c] = "done"
        /\ Len(put[c]) >= 2
        /\ spc[c] \in {"teardown", "done"}
        /\ queue[c] # <<>>
        /\ queue[c][Len(queue[c])] = None

\* C8: the producer emits at most 5 candidates, the flush of the partial line
\* included, and the client receives at most 5 lines.
C8_AtMostFive ==
    \A c \in Conns :
        /\ Len(Candidates(put[c])) <= MaxCandidates
        /\ Len(written[c]) <= MaxCandidates

\* the flush emitted the fifth candidate and the client was sent all five
C8_Witness ==
    \E c \in Conns :
        /\ ppc[c] = "finally"
        /\ count[c] = MaxCandidates - 1
        /\ Len(Candidates(put[c])) = MaxCandidates
        /\ Len(written[c]) = MaxCandidates

\* C9: no candidate is emitted twice in a session, the flushed one included.
C9_NoDuplicate ==
    \A c \in Conns :
        \A i, j \in 1..Len(put[c]) :
            (i < j /\ put[c][i] # None) => put[c][i] # put[c][j]

\* the stream ended below the cap and not stopped, with a partial line whose
\* cleaned form had been emitted before: it was not emitted again
C9_Witness ==
    \E c \in Conns :
        /\ ppc[c] = "finally"
        /\ ~stop[c]
        /\ CapNotReached(count[c])
        /\ CleanLine(buf[c]) # None
        /\ CleanLine(buf[c]) \in seen[c]
        /\ Len(put[c]) >= 2

\* the lines written are the first of the candidates emitted
WrittenIsPrefix ==
    \A c \in Conns : IsPrefix(written[c], Candidates(put[c]))

\* C10: the lines written to the client are a prefix of the candidates the
\* producer emitted, in order, and an item is taken from the queue only when
\* the candidate before it has been drained.
C10_OrderedAndDrained ==
    /\ []WrittenIsPrefix
    /\ [][\A c \in Conns :
             Len(queue'[c]) < Len(queue[c]) => spc[c] = "drain"]_vars

\* two candidates written, the second still draining, the next item waiting
C10_Witness ==
    \E c \in Conns :
        /\ spc[c] = "draining"
        /\ Len(written[c]) = 2
        /\ queue[c] # <<>>

\* C11: a retrieval that fails (the store is missing or cannot be opened)
\* never ends the session: the session goes on to start its producer.
C11_RetrievalNeverEndsSession ==
    \A c \in Conns :
        fpc[c] = "failed" => (spc[c] # "done" \/ ppc[c] # "none")

\* C12: the backend request is attempted at most twice; the second attempt
\* follows a failed first one and starts from an absent connection handle, so
\* that a fresh connection is made; when both attempts fail the producer
\* emits no candidate, the handle is left absent, and the client is written
\* no line and gets the end of output.
C12_RetryOnceThenFail ==
    \A c \in Conns :
        /\ attempt[c] <= 1
        /\ (ppc[c] = "connect" /\ attempt[c] = 1) => conn[Variant] = "absent"
        /\ (ppc[c] \in {"finally", "done"} /\ attempt[c] = 1) =>
              /\ conn[Variant] = "absent"
              /\ Candidates(put[c]) = <<>>
              /\ written[c] = <<>>
              /\ spc[c] = "done" => eof[c]

\* both attempts failed, the producer returned and the session ended after
\* the sentinel: nothing written, end of output sent
C12_Witness ==
    \E c \in Conns :
        /\ ppc[c] = "done"
        /\ attempt[c] = 1
        /\ put[c] = <<None>>
        /\ queue[c] = <<>>
        /\ spc[c] = "done"
        /\ written[c] = <<>>
        /\ eof[c]

\* no handle_client has ended with an exception
NoHandlerRaised == \A c \in Conns : ~HandlerRaised(c)

\* C13: whatever the outcome of a session (an exception inside _serve, a
\* cancellation), handle_client does not raise, and a connection that waited
\* for the earlier session gets its own session when the wait ends.
C13_ListenerSurvives ==
    /\ []NoHandlerRaised
    /\ [][\A c \in Conns :
             (hpc[c] = "awaitOld" /\ hpc'[c] # "awaitOld")
                 => (hpc'[c] = "awaitOwn" /\ spc'[c] = "start")]_vars

\* a session ended by a retrieval fault, a later one ended by cancellation,
\* both handlers returned, and the connection that cancelled has its session
C13_Witness ==
    \E a, b, c \in Conns :
        /\ fpc[a] = "failed" /\ spc[a] = "done" /\ HandlerReturned(a)
        /\ exc[b] = "cancel" /\ spc[b] = "done" /\ HandlerReturned(b)
        /\ waitOn[c] = b
        /\ spc[c] \notin {"none", "start"}

\* the payloads after "data: " that are no JSON object: text json.loads
\* rejects, and JSON that parses to a list, a string, a number or null
MalformedKinds == {"badjson", "nonobj"}

\* C14: wherever the producer is reading, a streamed event with a malformed
\* payload is skipped: the locals are unchanged and the read loop goes on, so
\* that later events of the stream are still processed.
C14_MalformedSkipped ==
    \A c \in Conns :
        ppc[c] = "reading" =>
            \A kk \in MalformedKinds :
                StreamEvent(Locals(c), [k |-> kk, text |-> <<>>, stop |-> FALSE])
                    = [st |-> Locals(c), next |-> "loop"]

\* the executor holds or runs no job of session c
NoJobOf(c) ==
    /\ fpc[c] = "none"
    /\ ppc[c] = "none"
    /\ \A i \in 1..Len(pending) : pending[i][2] # c

\* a session that has not got past the read of the query line has written
\* nothing and has no job
NothingBeforeQuery ==
    \A c \in Conns :
        (spc[c] \in {"start", "readline"} \/ (spc[c] = "done" /\ fpc[c] = "none"))
            => (written[c] = <<>> /\ NoJobOf(c))

\* C15: a session whose read of the query line ends it (empty line, or no
\* line within the wait) has written nothing to the client and has started
\* neither a retrieval nor a producer, and stays so.
C15_NoQueryNoWork ==
    /\ []NothingBeforeQuery
    /\ [][\A c \in Conns :
             (spc[c] = "readline" /\ spc'[c] = "done")
                 => (written'[c] = <<>> /\ NoJobOf(c)' /\ closed'[c])]_vars

\* a session that ended at the read of its query line
C15_Witness ==
    \E c \in Conns :
        /\ spc[c] = "done"
        /\ closed[c]
        /\ exc[c] = "none"
        /\ fpc[c] = "none"
        /\ written[c] = <<>>

\* the session left its loop on the queue-wait timeout and waits for its
\* producer: in a run without cancellation, the teardown with no exception
\* on its way while the producer has not returned
TimedOut(c) == spc[c] = "teardown" /\ exc[c] = "none"

\* a timed-out session has set its stop flag and sent the end of output
TimedOutStopped == \A c \in Conns : TimedOut(c) => (stop[c] /\ eof[c])

\* C16: after the queue-wait timeout the stop flag is set; from then on no
\* item is taken from the queue and nothing more is written, whatever the
\* producer still emits; the producer is left to run: it leaves its loop by
\* seeing the flag, emits nothing on the way out and puts its sentinel.
C16_TimeoutEndsQuietly ==
    /\ []TimedOutStopped
    /\ [][\A c \in Conns :
             stop[c] =>
                 /\ written'[c] = written[c]
                 /\ Len(queue'[c]) >= Len(queue[c])
                 /\ (ppc[c] = "loop" /\ ppc'[c] # "loop")
                        => (ppc'[c] = "finally" /\ put'[c] = put[c])
                 /\ (ppc[c] # "done" /\ ppc'[c] = "done")
                        => put'[c] = Append(put[c], None)]_vars

\* a timed-out session that had written a line; its producer emitted another
\* candidate after the timeout, which stays on the queue, and then returned
C16_Witness ==
    \E c \in Conns :
        /\ TimedOut(c)
        /\ written[c] # <<>>
        /\ Len(Candidates(put[c])) > Len(written[c])
        /\ ppc[c] = "done"

\* C17: cleaning is idempotent on accepted lines: every candidate emitted,
\* which is a line _clean_line returned, is returned unchanged when it is
\* cleaned again.
C17_CleanIdempotent ==
    \A c \in Conns :
        \A i \in 1..Len(put[c]) :
            put[c][i] # None => CleanLine(put[c][i]) = put[c][i]

\* C18: every candidate emitted is non-empty, has an even number of double
\* quotes and of single quotes, and begins with neither the comment marker
\* nor the code-fence marker.
C18_CandidateWellFormed ==
    \A c \in Conns :
        \A i \in 1..Len(put[c]) :
            LET x == put[c][i]
            IN  x # None =>
                    /\ Len(x) > 0
                    /\ CountChar(x, DQUOTE) % 2 = 0
                    /\ CountChar(x, SQUOTE) % 2 = 0
                    /\ ~StartsWith(x, <<HASH>>)
                    /\ ~StartsWith(x, <<BACKTICK, BACKTICK, BACKTICK>>)

\* a candidate with a pair of single quotes and a comment marker inside was
\* emitted and written to the client
C18_Witness ==
    \E c \in Conns :
        \E i \in 1..Len(written[c]) :
            /\ CountChar(written[c][i], SQUOTE) = 2
            /\ CountChar(written[c][i], HASH) = 1

\* with the remote backend selected and no key, no producer has made the
\* remote connection, and a producer past its connect has made the local one
\* unless a stream error has reset it since
LocalPathOnly ==
    (BACKEND = "anthropic" /\ ANTHROPIC_API_KEY = "")
        => /\ conn["anthropic"] = "absent"
           /\ \A c \in Conns :
                 (ppc[c] = "loop" /\ conn["local"] = "absent")
                     => \E d \in Conns : d # c /\ ppc[d] # "none"

\* C19: with the remote backend selected and the API key absent, every
\* session runs the local-variant producer and none the remote one, and the
\* backend configuration never changes after startup.
C19_FallsBackToLocal ==
    /\ []LocalPathOnly
    /\ [][BACKEND' = BACKEND /\ ANTHROPIC_API_KEY' = ANTHROPIC_API_KEY]_vars

\* remote backend selected, no key: an earlier session streamed candidates
\* and ended, and a later session's producer reads from the local connection
C19_Witness ==
    /\ BACKEND = "anthropic"
    /\ ANTHROPIC_API_KEY = ""
    /\ \E a, b \in Conns :
          /\ a < b
          /\ spc[a] = "done" /\ ppc[a] = "done" /\ written[a] # <<>>
          /\ ppc[b] = "reading"
          /\ conn["local"] = "open"

\* the session ended on the producer's sentinel: the task is done with no
\* exception, the producer has returned and the queue has been emptied
EndedOnSentinel(c) ==
    /\ spc[c] = "done"
    /\ exc[c] = "none"
    /\ ppc[c] = "done"
    /\ queue[c] = <<>>

\* C20: a session that is neither cancelled nor timed out and whose writes
\* succeed ends on the sentinel; the client has then been written all the
\* candidates its producer emitted, in emission order, and the end of output.
C20_AllCandidatesDelivered ==
    \A c \in Conns :
        EndedOnSentinel(c) => (written[c] = Candidates(put[c]) /\ eof[c])

\* a session that ended on the sentinel after five candidates
C20_Witness ==
    \E c \in Conns :
        /\ EndedOnSentinel(c)
        /\ Len(Candidates(put[c])) = MaxCandidates
        /\ written[c] = Candidates(put[c])
        /\ eof[c]
        /\ closed[c]

\* C21: when the stream function has left its read loop, however the stream
\* ended, with fewer than 5 candidates emitted and the stop flag not set, a
\* buffered partial line that cleans to a valid line not yet emitted has
\* been emitted as the final candidate.
C21_FlushOnEveryEnd ==
    \A c \in Conns :
        ( /\ ppc[c] = "finally"
          /\ CapNotReached(count[c])
          /\ ~stop[c]
          /\ Strip(buf[c], Whitespace) # <<>>
          /\ Accepted(CleanLine(buf[c]), seen[c]) )
            => ( /\ put[c] # <<>>
                 /\ put[c][Len(put[c])] = CleanLine(buf[c]) )

\* C22: every accepted connection ends with its session in a terminal state
\* and its client connection closed.  The task being done is terminal and no
\* later step closes a writer, so in every state a session whose task is done
\* has closed its client connection.
C22_TerminalMeansClosed ==
    \A c \in Conns : spc[c] = "done" => closed[c]

\* the retrieval job of c is in a worker thread, inside _fts_query_sync: in
\* _get_db or in a query on _db_con
InRetrieval(c) == fpc[c] = "running"

\* C23: the shared database handle is never in use by two worker threads at
\* the same time: at most one retrieval job is running at any instant.
C23_DbHandleNeverShared ==
    Cardinality({c \in Conns : InRetrieval(c)}) <= 1

=============================================================================
